---------------------------- MODULE Spec2Model ----------------------------
(***************************************************************************)
(* The CPO accrual workflow of validate_cpo_with_groupname.py: main() and  *)
(* the functions it calls.  Strings are sequences of one-character         *)
(* strings, instants are integers (seconds are abstracted to units), the   *)
(* record store and the generative backend are inputs chosen by \E at the  *)
(* step that performs the blocking call.  find_cert_order, generate_notes, *)
(* get_existing_cpo_minutes and the dedupe loop are also applied on their  *)
(* own, to arguments drawn at the start.                                   *)
(***************************************************************************)
EXTENDS Integers, Sequences, FiniteSets, TLC

VARIABLES
    pc,             \* position of main(): see PcValues
    existing,       \* main: existing  (line 185)
    soc,            \* main: soc (line 197), startOfCare of the order found
    epe,            \* main: epe (line 199), episodeEndDate of the order found
    window_start,   \* main: window_start (line 202)
    window_end,     \* main: window_end   (line 203)
    existing_notes, \* main: existing_notes (line 209)
    seen_titles,    \* main: seen_titles (lines 210, 232)
    seen_snips,     \* main: seen_snips  (lines 211, 233)
    created,        \* main: created (lines 216, 261)
    needed,         \* main: needed (line 218), of the current iteration
    batch,          \* main: batch (line 219), the count asked of generate_notes
    to_post,        \* main: to_post (line 246)
    idx,            \* main: position of the for loop of line 250 (1-based)
    verdict,        \* main: verdict (line 251), of the last validate_note call
                    \* of the current iteration, <<>> before it
    send_dt,        \* main: send_dt (line 254): {the last timestamp drawn in the
                    \* current iteration}, {} before it
    accepted,       \* the notes printed as "Would POST" (lines 256-260), in order
    genCalls,       \* number of generate_notes calls made by main
    valCalls,       \* number of validate_note calls
    iterValidated,  \* validate_note calls of the current iteration
    iterAccepted,   \* increments of created in the current iteration
    raised,         \* the call that raised when pc = "EXCEPTION", else ""
    orders_seen,    \* main: orders (line 191), as far as the properties read it:
                    \* "" before get_orders returns, then "match" when some
                    \* order names 485 or recert in its type or name, else
                    \* "nomatch"
    monthMinutes,   \* the cpOmin of the records of the first GET, summed per
                    \* instant of the month
    genLen,         \* len(gen_notes) (line 220) of the current iteration
    uniqueLen,      \* len(unique) (line 234) of the current iteration
    posts,          \* number of requests.post calls made (line 180)
    arg,            \* the argument of a function applied on its own
    ret,            \* its return value
    valReqs,        \* number of backend requests made by validate_note
    gen_cpo,        \* generate_cpo.py: the locals of ensure_thirty_minutes_cpo
    val_cpo         \* validate_cpo.py: the locals of main from line 159 on

vars == <<pc, existing, soc, epe, window_start, window_end, existing_notes, seen_titles,
          seen_snips, created, needed, batch, to_post, idx, verdict, send_dt,
          accepted, genCalls, valCalls, valReqs, iterValidated, iterAccepted,
          raised, orders_seen, monthMinutes, genLen, uniqueLen, posts,
          arg, ret, valReqs, gen_cpo, val_cpo>>

\* the variables of a function applied on its own
fnVars == <<arg, ret>>

\* the variables of the two sibling programs
sibVars == <<gen_cpo, val_cpo>>

-----------------------------------------------------------------------------
(* Bounds of the model *)

MaxInstant == 2     \* instants are 0..MaxInstant
MonthFirst == 1     \* first instant of the month named on the command line
MonthLast  == 1     \* last instant (day = last day, 23:59:59) of that month
MaxRecords == 2     \* CCNotes returned by the first GET (minute ledger)
MaxOrders  == 2     \* orders returned by GET /Order/patient
MaxNotes   == 1     \* CCNotes returned by the second GET (dedupe seed)
MaxGen     == 2     \* notes in one backend completion
MaxCCNotes == 3     \* records get_ccnotes returns to validate_cpo.py

(* Program constants *)

Threshold     == 30   \* minutes to reach
MinutesPerNote == 3   \* minutes credited per note
BatchCap      == 3    \* notes asked per generate_notes call, at most
SnipTokens    == 10   \* whitespace tokens of the text that form the snippet key
GenAttempts   == 2    \* backend requests per generate_notes call, at most

Instants == 0..MaxInstant

Min(a, b) == IF a <= b THEN a ELSE b

Max(a, b) == IF a >= b THEN a ELSE b

-----------------------------------------------------------------------------
(* Strings: sequences of one-character strings *)

IsSpace(c) == c = " "

UpperCase == <<"A", "B", "C", "D", "E", "F", "G", "H", "I", "J", "K", "L", "M",
               "N", "O", "P", "Q", "R", "S", "T", "U", "V", "W", "X", "Y", "Z">>
LowerCase == <<"a", "b", "c", "d", "e", "f", "g", "h", "i", "j", "k", "l", "m",
               "n", "o", "p", "q", "r", "s", "t", "u", "v", "w", "x", "y", "z">>

\* the lowercase letter of each uppercase letter
LowerOf ==
    [c \in {UpperCase[i] : i \in 1..Len(UpperCase)} |->
        LowerCase[CHOOSE i \in 1..Len(UpperCase) : UpperCase[i] = c]]

\* str.lower() on one character
LowerChar(c) == IF c \in DOMAIN LowerOf THEN LowerOf[c] ELSE c

Lower(s) == [i \in 1..Len(s) |-> LowerChar(s[i])]

\* str.startswith(p)
StartsWith(s, p) == Len(s) >= Len(p) /\ SubSeq(s, 1, Len(p)) = p

\* p in s
Contains(s, p) ==
    \E i \in 1..(Len(s) - Len(p) + 1) : SubSeq(s, i, i + Len(p) - 1) = p

\* str.split(): the maximal runs of non-whitespace characters, in order
RECURSIVE SplitAcc(_, _, _)
SplitAcc(s, cur, acc) ==
    IF s = <<>>
    THEN IF cur = <<>> THEN acc ELSE Append(acc, cur)
    ELSE IF IsSpace(Head(s))
         THEN SplitAcc(Tail(s), <<>>, IF cur = <<>> THEN acc ELSE Append(acc, cur))
         ELSE SplitAcc(Tail(s), Append(cur, Head(s)), acc)

Split(s) == SplitAcc(s, <<>>, <<>>)

\* " ".join(tokens)
RECURSIVE Join(_)
Join(tokens) ==
    IF tokens = <<>> THEN <<>>
    ELSE IF Len(tokens) = 1 THEN Head(tokens)
    ELSE Head(tokens) \o <<" ">> \o Join(Tail(tokens))

\* str.strip()
RECURSIVE LStrip(_)
LStrip(s) == IF s # <<>> /\ IsSpace(Head(s)) THEN LStrip(Tail(s)) ELSE s

RECURSIVE RStrip(_)
RStrip(s) ==
    IF s # <<>> /\ IsSpace(s[Len(s)]) THEN RStrip(SubSeq(s, 1, Len(s) - 1)) ELSE s

Strip(s) == LStrip(RStrip(s))

\* the title key of the dedupe: title.lower()
TitleKey(title) == Lower(title)

\* the snippet key of the dedupe: " ".join(text.split()[:10]).lower()
SnipKey(text) ==
    LET toks == Split(text)
    IN  Lower(Join(SubSeq(toks, 1, Min(SnipTokens, Len(toks)))))

-----------------------------------------------------------------------------
(* Inputs: what the record store and the backend may answer *)

\* cpOmin values of the records; 0 stands for a missing or zero field
MinuteVals == {0, 24, 27, 29, 30}

\* a CCNote as the ledger reads it: kind "iso" has a timestamp fromisoformat
\* parses, "none" has neither updatedOn nor createdAt, "bad" has one that
\* fromisoformat rejects
LedgerRecords ==
    [kind : {"iso"}, ts : Instants, cpOmin : MinuteVals]
        \cup [kind : {"none", "bad"}, ts : {0}, cpOmin : MinuteVals]

SeqsUpTo(S, n) == UNION {[1..k -> S] : k \in 0..n}

RecordLists == SeqsUpTo(LedgerRecords, MaxRecords)

T485    == <<"4", "8", "5">>
TRecert == <<"R", "e", "c", "e", "r", "t">>
TOther  == <<"p", "o", "c">>
\* a type that names the 485 form after a prefix
TForm485 == <<"F", "4", "8", "5">>

\* (daOrderType, documentName) of an order: a 485, a recertification named
\* in the document name, an order that is neither, and an order whose type
\* names the 485 form after a prefix
OrderKinds == {<<T485, TOther>>, <<TOther, TRecert>>, <<TOther, TOther>>,
               <<TForm485, TOther>>}

Orders ==
    {[daOrderType |-> k[1], documentName |-> k[2],
      startOfCare |-> s, episodeEndDate |-> e] :
        k \in OrderKinds, s \in Instants, e \in Instants}

OrderLists == SeqsUpTo(Orders, MaxOrders)

\* a text of SnipTokens + 1 tokens: SnipTokens times "b", then last
LongText(last) == Join([i \in 1..(SnipTokens + 1) |->
                          IF i <= SnipTokens THEN <<"b">> ELSE <<last>>])

\* notes the patient already has (second GET of the CCNotes)
PreNotes ==
    { [noteTitle |-> <<"a", " ", "b", " ">>, noteText |-> LongText("y")] }

NoteLists == SeqsUpTo(PreNotes, MaxNotes)

\* (title, text) pairs generate_notes may parse out of a completion; titles
\* and texts are stripped by the parser (lines 122-123)
GenNotes ==
    { [title |-> <<"A", " ", "b">>,      text |-> <<"X", " ", "y">>],
      [title |-> <<"a", " ", " ", "b">>, text |-> LongText("v")],
      [title |-> <<"a", " ", "b">>,      text |-> <<"r">>],
      [title |-> <<"y">>,                text |-> <<"x", " ", " ", "Y">>] }

GenLists == SeqsUpTo(GenNotes, MaxGen)

\* a pair that differs from the first of GenNotes in the whitespace of its
\* title and in the case and whitespace of its text, and one that differs
\* from the note of PreNotes in the whitespace of its title and in the case
\* of the last token of its text
VariantNotes ==
    { [title |-> <<"a", " ", " ", "b">>, text |-> <<"x", " ", " ", "Y">>],
      [title |-> <<"a", " ", "b">>,      text |-> LongText("Y")] }

\* the batches the dedupe loop is applied to on its own
DedupeLists == SeqsUpTo(GenNotes \cup VariantNotes, MaxGen)

\* kt and ks of lines 228-229 for each note
NoteKeys ==
    [n \in GenNotes \cup VariantNotes |->
        [kt |-> TitleKey(n.title), ks |-> SnipKey(n.text)]]

\* one backend request of generate_notes: a completion already split into its
\* NoteTitle blocks, an APITimeoutError, or another OpenAIError
GenReplies ==
    [kind : {"ok"}, notes : GenLists]
        \cup [kind : {"timeout", "error"}, notes : {<<>>}]

VALID      == <<"V", "A", "L", "I", "D">>
INVALID    == <<"I", "N", "V", "A", "L", "I", "D", ":", " ", "x">>
\* stands for the string "<cross mark> Validation error: <e>" of line 162
ErrorMarker == <<"!", " ", "e", "r", "r", "o", "r">>

Completions == { VALID, <<" ">> \o VALID \o <<" ">>, INVALID }

\* the replies generate_notes receives in one call: each request but the last
\* timed out, and at most GenAttempts requests are made
ReplySeqs ==
    UNION { { [i \in 1..k |-> IF i < k
                               THEN [kind |-> "timeout", notes |-> <<>>]
                               ELSE r] :
              r \in IF k < GenAttempts
                    THEN {x \in GenReplies : x.kind # "timeout"}
                    ELSE GenReplies } :
            k \in 1..GenAttempts }

ValReplies ==
    [kind : {"ok"}, content : Completions]
        \cup [kind : {"timeout", "error"}, content : {<<>>}]

-----------------------------------------------------------------------------
(* The functions main() calls *)

\* the loop of lines 61-66 with dt < last for dt <= last
RECURSIVE LedgerSum_EndExclusive(_, _)
LedgerSum_EndExclusive(recs, total) ==
    IF recs = <<>> THEN [error |-> FALSE, total |-> total]
    ELSE LET n == Head(recs)
         IN  IF n.kind = "none" THEN LedgerSum_EndExclusive(Tail(recs), total)
             ELSE IF n.kind = "bad" THEN [error |-> TRUE, total |-> total]
             ELSE IF MonthFirst <= n.ts /\ n.ts < MonthLast
                  THEN LedgerSum_EndExclusive(Tail(recs), total + n.cpOmin)
                  ELSE LedgerSum_EndExclusive(Tail(recs), total)

\* get_existing_cpo_minutes (lines 49-67) on the records the GET returned:
\* the sum, or the ValueError of fromisoformat (line 64), which nothing catches
RECURSIVE LedgerSum(_, _)
LedgerSum(recs, total) ==
    IF recs = <<>> THEN [error |-> FALSE, total |-> total]
    ELSE LET n == Head(recs)
         IN  IF n.kind = "none" THEN LedgerSum(Tail(recs), total)
             ELSE IF n.kind = "bad" THEN [error |-> TRUE, total |-> total]
             ELSE IF MonthFirst <= n.ts /\ n.ts <= MonthLast
                  THEN LedgerSum(Tail(recs), total + n.cpOmin)
                  ELSE LedgerSum(Tail(recs), total)

get_existing_cpo_minutes(recs) == LedgerSum(recs, 0)

\* the test of line 78
IsCertOrder(o) ==
    LET da == Lower(o.daOrderType)
        dn == Lower(o.documentName)
    IN  \/ StartsWith(da, T485)
        \/ Contains(dn, T485)
        \/ Contains(da, Lower(TRecert))
        \/ Contains(dn, Lower(TRecert))

\* the orders that pass the test of line 78
CertOrders == {o \in Orders : IsCertOrder(o)}

\* find_cert_order without the test of line 78: the first order, if any
find_cert_order_NoTest(orders) ==
    IF orders = <<>> THEN <<>> ELSE <<Head(orders)>>

\* find_cert_order (lines 74-80): <<>> for None, <<o>> for the order o
RECURSIVE find_cert_order(_)
find_cert_order(orders) ==
    IF orders = <<>> THEN <<>>
    ELSE IF Head(orders) \in CertOrders THEN <<Head(orders)>>
    ELSE find_cert_order(Tail(orders))

\* generate_notes with "continue" in the handler of line 128 as well
RECURSIVE GenLoop_RetryOnError(_, _)
GenLoop_RetryOnError(replies, attempt) ==
    IF attempt > GenAttempts THEN [notes |-> <<>>, reqs |-> GenAttempts]
    ELSE LET r == replies[attempt]
         IN  IF r.kind = "ok" THEN [notes |-> r.notes, reqs |-> attempt]
             ELSE GenLoop_RetryOnError(replies, attempt + 1)

\* generate_notes (lines 103-132) on the replies the backend gives to its
\* successive requests: the notes returned and the requests made
RECURSIVE GenLoop(_, _)
GenLoop(replies, attempt) ==
    IF attempt > GenAttempts THEN [notes |-> <<>>, reqs |-> GenAttempts]
    ELSE LET r == replies[attempt]
         IN  IF r.kind = "ok" THEN [notes |-> r.notes, reqs |-> attempt]
             ELSE IF r.kind = "timeout" THEN GenLoop(replies, attempt + 1)
             ELSE [notes |-> <<>>, reqs |-> attempt]

generate_notes(replies) == GenLoop(replies, 1)

\* the lists one generate_notes call can return, over the replies of ReplySeqs
GenOutcomes == {generate_notes(replies).notes : replies \in ReplySeqs}

\* build_gen_prompt (lines 92-101): icd and phys are fixed for the run, so
\* the prompt is known by cnt
build_gen_prompt(cnt) == cnt

\* the prompts of the requests generate_notes(icd, phys, cnt) sends, in order:
\* prompt is built once (line 104) and every request sends it (line 111)
gen_requests(replies, cnt) ==
    LET prompt == build_gen_prompt(cnt)
    IN  [i \in 1..GenLoop(replies, 1).reqs |-> prompt]

\* validate_note (lines 135-162) on the reply of its one backend request
validate_note(reply) ==
    IF reply.kind = "ok" THEN Strip(reply.content) ELSE ErrorMarker

\* validate_note with a second request after a failed one
val_requests_Retry(reply) == IF reply.kind = "ok" THEN 1 ELSE 2

\* the backend requests validate_note makes (lines 149-162): the one of line
\* 150, whatever its outcome
val_requests(reply) == 1

\* the instants random_date(start, end) (lines 44-46) can return; the empty
\* set when random.randint(0, secs) raises ValueError (secs < 0)
random_date(start, end) == {start + s : s \in 0..(end - start)}

\* a \div b + 1, which is math.ceil(a / b) only where b does not divide a
CeilDiv_PlusOne(a, b) == a \div b + 1

\* math.ceil(a / b) for b > 0
CeilDiv(a, b) == -((-a) \div b)

\* the loop condition of line 217
BelowThreshold(e, c) == e + c * MinutesPerNote < Threshold

\* needed of line 218 without created
Needed_NoCreated(e, c) == CeilDiv(Threshold - e, MinutesPerNote)

\* needed of line 218
Needed(e, c) == CeilDiv(Threshold - e - c * MinutesPerNote, MinutesPerNote)

\* the test of line 230 with "and" for "or"
IsDuplicate_Both(kt, ks, titles, snips) == kt \in titles /\ ks \in snips

\* the test of line 230
IsDuplicate(kt, ks, titles, snips) == kt \in titles \/ ks \in snips

\* the dedupe loop of lines 226-234: the unique notes and the identity sets
RECURSIVE Dedupe(_, _, _, _)
Dedupe(notes, titles, snips, unique) ==
    IF notes = <<>>
    THEN [unique |-> unique, seen_titles |-> titles, seen_snips |-> snips]
    ELSE LET kt == NoteKeys[Head(notes)].kt
             ks == NoteKeys[Head(notes)].ks
         IN  IF IsDuplicate(kt, ks, titles, snips)
             THEN Dedupe(Tail(notes), titles, snips, unique)
             ELSE Dedupe(Tail(notes), titles \cup {kt}, snips \cup {ks},
                         Append(unique, Head(notes)))

\* to_post without the slice of line 246
ToPost_NoSlice(unique, n) == unique

\* to_post of line 246: unique[:needed]
ToPost(unique, n) == SubSeq(unique, 1, Min(n, Len(unique)))

\* the tests of lines 221 and 236 never taken
NoNotes_Never(notes) == FALSE

\* the tests of lines 221 and 236: "not gen_notes", "not unique"
NoNotes(notes) == notes = <<>>

\* lines 254-261 with a call of post_note and DRY_RUN = False
WouldPost_Commit(p) == p + 1

\* the requests.post calls made once lines 254-261 have run: the note is
\* printed as "[dry-run] Would POST" and post_note is not called
WouldPost(p) == p

\* the test of line 187 with > for >=
AlreadyBilled_Strict(e) == e > Threshold

\* the test of line 187
AlreadyBilled(e) == e >= Threshold

\* the order names 485 or recert, in any letter case, somewhere in its type
\* or in its name
NamesCertification(o) ==
    LET da == Lower(o.daOrderType)
        dn == Lower(o.documentName)
    IN  \/ Contains(da, T485)
        \/ Contains(dn, T485)
        \/ Contains(da, Lower(TRecert))
        \/ Contains(dn, Lower(TRecert))

\* the orders that do
CertNamingOrders == {o \in Orders : NamesCertification(o)}

\* the cpOmin of the records of recs that carry the timestamp t, summed
RECURSIVE MinutesAt(_, _)
MinutesAt(recs, t) ==
    IF recs = <<>> THEN 0
    ELSE (IF Head(recs).kind = "iso" /\ Head(recs).ts = t
          THEN Head(recs).cpOmin ELSE 0) + MinutesAt(Tail(recs), t)

-----------------------------------------------------------------------------
(* main() of validate_cpo_with_groupname.py, one action per blocking call *)

PcValues == {"start", "orders", "notes", "loop", "validating",
             "DONE", "NO_CERTIFICATION", "EXHAUSTED", "EXCEPTION"}

\* the locals of main() and the counters before main() has run
InitMain ==
    /\ existing = 0
    /\ soc = 0
    /\ epe = 0
    /\ window_start = 0
    /\ window_end = 0
    /\ existing_notes = <<>>
    /\ seen_titles = {}
    /\ seen_snips = {}
    /\ created = 0
    /\ needed = 0
    /\ batch = 0
    /\ to_post = <<>>
    /\ idx = 0
    /\ verdict = <<>>
    /\ send_dt = {}
    /\ accepted = <<>>
    /\ genCalls = 0
    /\ valCalls = 0
    /\ valReqs = 0
    /\ iterValidated = 0
    /\ iterAccepted = 0
    /\ raised = ""
    /\ orders_seen = ""
    /\ monthMinutes = [t \in MonthFirst..MonthLast |-> 0]
    /\ genLen = 0
    /\ uniqueLen = 0
    /\ posts = 0

\* neither sibling program runs
NoSibling ==
    /\ gen_cpo = <<>>
    /\ val_cpo = <<>>

Init ==
    /\ pc = "start"
    /\ InitMain
    /\ NoSibling
    /\ arg = <<>>
    /\ ret = <<>>

\* lines 185-189: the minute ledger and the threshold test
Measure ==
    /\ pc = "start"
    /\ \E recs \in RecordLists :
         LET r == get_existing_cpo_minutes(recs)
         IN  IF r.error
             THEN /\ pc' = "EXCEPTION"
                  /\ raised' = "fromisoformat"
                  /\ UNCHANGED <<existing, monthMinutes>>
             ELSE /\ existing' = r.total
                  /\ monthMinutes' =
                        [t \in MonthFirst..MonthLast |-> MinutesAt(recs, t)]
                  /\ pc' = IF AlreadyBilled(r.total) THEN "DONE" ELSE "orders"
                  /\ raised' = raised
    /\ UNCHANGED <<soc, epe, window_start, window_end, existing_notes,
                   seen_titles, seen_snips, created, needed, batch, to_post, idx, verdict,
                   send_dt, accepted, genCalls, valCalls, valReqs,
                   iterValidated, iterAccepted, orders_seen, genLen,
                   uniqueLen, posts>>
    /\ UNCHANGED fnVars
    /\ UNCHANGED sibVars

\* lines 191-203: the certification order and the window
ResolveCertification ==
    /\ pc = "orders"
    /\ \E orders \in OrderLists :
         LET cert == find_cert_order(orders)
         IN  /\ orders_seen' =
                    IF \E i \in 1..Len(orders) : orders[i] \in CertNamingOrders
                    THEN "match" ELSE "nomatch"
             /\ IF cert = <<>>
                THEN /\ pc' = "NO_CERTIFICATION"
                     /\ UNCHANGED <<soc, epe, window_start, window_end>>
                ELSE /\ soc' = cert[1].startOfCare
                     /\ epe' = cert[1].episodeEndDate
                     /\ window_start' = soc'
                     /\ window_end' = Min(epe', MonthLast)
                     /\ pc' = "notes"
    /\ UNCHANGED <<existing, existing_notes, seen_titles, seen_snips, created,
                   needed, batch, to_post, idx, verdict, send_dt, accepted,
                   genCalls, valCalls, valReqs, iterValidated, iterAccepted,
                   raised, monthMinutes, genLen, uniqueLen, posts>>
    /\ UNCHANGED fnVars
    /\ UNCHANGED sibVars

\* lines 205-216: the existing notes seed the identity sets (icd and phys of
\* lines 205-207 only enter the prompts and are left out)
SeedIdentitySets ==
    /\ pc = "notes"
    /\ \E notes \in NoteLists :
         /\ existing_notes' = notes
         /\ seen_titles' = {TitleKey(notes[i].noteTitle) : i \in 1..Len(notes)}
         /\ seen_snips' = {SnipKey(notes[i].noteText) : i \in 1..Len(notes)}
    /\ created' = 0
    /\ pc' = "loop"
    /\ UNCHANGED <<existing, soc, epe, window_start, window_end, needed, batch, to_post,
                   idx, verdict, send_dt, accepted, genCalls,
                   valCalls, valReqs, iterValidated, iterAccepted, raised,
                   orders_seen, monthMinutes, genLen, uniqueLen, posts>>
    /\ UNCHANGED fnVars
    /\ UNCHANGED sibVars

\* lines 217-247: one pass from the loop test to to_post
GenerateBatch ==
    /\ pc = "loop"
    /\ BelowThreshold(existing, created)
    /\ needed' = Needed(existing, created)
    /\ batch' = Min(BatchCap, needed')
    /\ \E gen_notes \in GenOutcomes :
         LET d == Dedupe(gen_notes, seen_titles, seen_snips, <<>>)
         IN  /\ genCalls' = genCalls + 1
             /\ genLen' = Len(gen_notes)
             /\ IF NoNotes(gen_notes)
                THEN /\ pc' = "EXHAUSTED"
                     /\ uniqueLen' = 0
                     /\ UNCHANGED <<seen_titles, seen_snips, to_post, idx>>
                ELSE /\ seen_titles' = d.seen_titles
                     /\ seen_snips' = d.seen_snips
                     /\ uniqueLen' = Len(d.unique)
                     /\ IF NoNotes(d.unique)
                        THEN /\ pc' = "EXHAUSTED"
                             /\ UNCHANGED <<to_post, idx>>
                        ELSE /\ to_post' = ToPost(d.unique, needed')
                             /\ idx' = 1
                             /\ pc' = "validating"
    /\ iterValidated' = 0
    /\ iterAccepted' = 0
    /\ verdict' = <<>>
    /\ send_dt' = {}
    /\ UNCHANGED <<existing, soc, epe, window_start, window_end, existing_notes, created,
                   accepted, valCalls, valReqs, raised, orders_seen, monthMinutes,
                   posts>>
    /\ UNCHANGED fnVars
    /\ UNCHANGED sibVars

\* lines 250-265: one pass of the for loop over to_post
ValidateNote ==
    /\ pc = "validating"
    /\ \E reply \in ValReplies :
         LET v == validate_note(reply)
             next == IF idx = Len(to_post) THEN "loop" ELSE "validating"
         IN  /\ verdict' = v
             /\ valCalls' = valCalls + 1
             /\ valReqs' = valReqs + val_requests(reply)
             /\ iterValidated' = iterValidated + 1
             /\ IF StartsWith(v, VALID)
                THEN IF random_date(window_start, window_end) = {}
                     THEN /\ pc' = "EXCEPTION"
                          /\ raised' = "randint"
                          /\ UNCHANGED <<send_dt, created, accepted,
                                         iterAccepted, idx, posts>>
                     ELSE /\ \E t \in random_date(window_start, window_end) :
                               send_dt' = {t}
                          /\ posts' = WouldPost(posts)
                          /\ created' = created + 1
                          /\ accepted' = Append(accepted, to_post[idx])
                          /\ iterAccepted' = iterAccepted + 1
                          /\ idx' = idx + 1
                          /\ pc' = next
                          /\ raised' = raised
                ELSE /\ idx' = idx + 1
                     /\ pc' = next
                     /\ UNCHANGED <<send_dt, created, accepted, iterAccepted,
                                    raised, posts>>
    /\ UNCHANGED <<existing, soc, epe, window_start, window_end, existing_notes,
                   seen_titles, seen_snips, needed, batch, to_post, genCalls,
                   orders_seen, monthMinutes, genLen, uniqueLen>>
    /\ UNCHANGED fnVars
    /\ UNCHANGED sibVars

\* lines 217, 267-269: the loop test fails, the total is reported
LoopExit ==
    /\ pc = "loop"
    /\ ~BelowThreshold(existing, created)
    /\ pc' = "DONE"
    /\ UNCHANGED <<existing, soc, epe, window_start, window_end, existing_notes,
                   seen_titles, seen_snips, created, needed, batch, to_post,
                   idx, verdict, send_dt, accepted, genCalls,
                   valCalls, valReqs, iterValidated, iterAccepted, raised,
                   orders_seen, monthMinutes, genLen, uniqueLen, posts>>
    /\ UNCHANGED fnVars
    /\ UNCHANGED sibVars

Next ==
    \/ Measure
    \/ ResolveCertification
    \/ SeedIdentitySets
    \/ GenerateBatch
    \/ ValidateNote
    \/ LoopExit

Spec == Init /\ [][Next]_vars

\* every blocking call returns (each request has a timeout), so main() always
\* takes its next step
FairSpec == Spec /\ WF_vars(Next)

TypeOK ==
    /\ pc \in PcValues
    /\ existing \in Nat
    /\ created \in Nat
    /\ idx \in Nat
    /\ send_dt \subseteq Int
    /\ raised \in {"", "fromisoformat", "randint"}
    /\ orders_seen \in {"", "match", "nomatch"}
    /\ genLen \in 0..MaxGen
    /\ uniqueLen \in 0..genLen
    /\ posts \in Nat

-----------------------------------------------------------------------------
(* The functions of the module applied on their own: the argument is drawn  *)
(* at the start, one step applies the function                              *)

\* find_cert_order(orders) (lines 74-80)
InitCert ==
    /\ pc = "call_find_cert_order"
    /\ InitMain
    /\ NoSibling
    /\ arg \in OrderLists
    /\ ret = <<>>

Call_find_cert_order ==
    /\ pc = "call_find_cert_order"
    /\ ret' = find_cert_order(arg)
    /\ pc' = "return_find_cert_order"
    /\ UNCHANGED <<existing, soc, epe, window_start, window_end, existing_notes,
                   seen_titles, seen_snips, created, needed, batch, to_post,
                   idx, verdict, send_dt, accepted, genCalls, valCalls, valReqs,
                   iterValidated, iterAccepted, raised, orders_seen,
                   monthMinutes, genLen, uniqueLen, posts, arg, gen_cpo, val_cpo>>

SpecCert == InitCert /\ [][Call_find_cert_order]_vars

\* what the backend answers to the successive requests of one generate_notes
\* call, were they all made
BackendReplies == [1..GenAttempts -> GenReplies]

\* generate_notes(icd, phys, cnt) (lines 103-132): main passes batch, which is
\* 1..BatchCap (line 219)
InitGen ==
    /\ pc = "call_generate_notes"
    /\ InitMain
    /\ NoSibling
    /\ arg \in [replies : BackendReplies, cnt : 1..BatchCap]
    /\ ret = <<>>

Call_generate_notes ==
    /\ pc = "call_generate_notes"
    /\ ret' = [notes |-> generate_notes(arg.replies).notes,
               requests |-> gen_requests(arg.replies, arg.cnt)]
    /\ pc' = "return_generate_notes"
    /\ UNCHANGED <<existing, soc, epe, window_start, window_end, existing_notes,
                   seen_titles, seen_snips, created, needed, batch, to_post,
                   idx, verdict, send_dt, accepted, genCalls, valCalls, valReqs,
                   iterValidated, iterAccepted, raised, orders_seen,
                   monthMinutes, genLen, uniqueLen, posts, arg, gen_cpo, val_cpo>>

SpecGen == InitGen /\ [][Call_generate_notes]_vars

\* get_existing_cpo_minutes(pid, month) (lines 49-67) on the records of the GET
InitLedger ==
    /\ pc = "call_get_existing_cpo_minutes"
    /\ InitMain
    /\ NoSibling
    /\ arg \in RecordLists
    /\ ret = <<>>

Call_get_existing_cpo_minutes ==
    /\ pc = "call_get_existing_cpo_minutes"
    /\ ret' = get_existing_cpo_minutes(arg)
    /\ pc' = "return_get_existing_cpo_minutes"
    /\ UNCHANGED <<existing, soc, epe, window_start, window_end, existing_notes,
                   seen_titles, seen_snips, created, needed, batch, to_post,
                   idx, verdict, send_dt, accepted, genCalls, valCalls, valReqs,
                   iterValidated, iterAccepted, raised, orders_seen,
                   monthMinutes, genLen, uniqueLen, posts, arg, gen_cpo, val_cpo>>

SpecLedger == InitLedger /\ [][Call_get_existing_cpo_minutes]_vars

\* the identity sets and the dedupe loop (lines 209-234): the sets are seeded
\* from the existing notes, then the loop runs over a first and over a second
\* batch
InitDedupe ==
    /\ pc = "call_dedupe"
    /\ InitMain
    /\ NoSibling
    /\ arg \in [existing_notes : NoteLists, first : DedupeLists,
                second : DedupeLists]
    /\ ret = <<>>

Call_dedupe ==
    /\ pc = "call_dedupe"
    /\ LET titles == {TitleKey(arg.existing_notes[i].noteTitle) :
                         i \in 1..Len(arg.existing_notes)}
           snips  == {SnipKey(arg.existing_notes[i].noteText) :
                         i \in 1..Len(arg.existing_notes)}
           d1 == Dedupe(arg.first, titles, snips, <<>>)
           d2 == Dedupe(arg.second, d1.seen_titles, d1.seen_snips, <<>>)
       IN  ret' = [first |-> d1, second |-> d2]
    /\ pc' = "return_dedupe"
    /\ UNCHANGED <<existing, soc, epe, window_start, window_end, existing_notes,
                   seen_titles, seen_snips, created, needed, batch, to_post,
                   idx, verdict, send_dt, accepted, genCalls, valCalls, valReqs,
                   iterValidated, iterAccepted, raised, orders_seen,
                   monthMinutes, genLen, uniqueLen, posts, arg, gen_cpo, val_cpo>>

SpecDedupe == InitDedupe /\ [][Call_dedupe]_vars

-----------------------------------------------------------------------------
(* generate_cpo.py: ensure_thirty_minutes_cpo (lines 121-156) and the       *)
(* functions it calls.  The CCNotes of the record store are drawn at the    *)
(* start and kept in arg; the locals are the fields of gen_cpo.             *)

\* get_existing_cpo_minutes (generate_cpo.py lines 41-63): a timestamp that
\* fromisoformat rejects is skipped (lines 56-59)
RECURSIVE gc_LedgerSum(_, _)
gc_LedgerSum(recs, total) ==
    IF recs = <<>> THEN total
    ELSE LET n == Head(recs)
         IN  IF n.kind = "iso" /\ MonthFirst <= n.ts /\ n.ts <= MonthLast
             THEN gc_LedgerSum(Tail(recs), total + n.cpOmin)
             ELSE gc_LedgerSum(Tail(recs), total)

\* find_485_cert_order (generate_cpo.py lines 75-81)
RECURSIVE find_485_cert_order(_)
find_485_cert_order(orders) ==
    IF orders = <<>> THEN <<>>
    ELSE LET da == Lower(Head(orders).daOrderType)
             dn == Lower(Head(orders).documentName)
         IN  IF StartsWith(da, T485) \/ Contains(dn, T485)
             THEN <<Head(orders)>>
             ELSE find_485_cert_order(Tail(orders))

\* what find_485_cert_order can return, over the order lists of OrderLists
Cert485Outcomes == {find_485_cert_order(orders) : orders \in OrderLists}

\* generate_notes (generate_cpo.py lines 94-119) has the attempts of GenLoop
\* and returns every paragraph of the completion; the workflow only prints
\* the list, so its length stands for it
GcReturnLens == {Len(new_notes) : new_notes \in GenOutcomes}

\* batch_count of line 146 without the subtraction of idx
gc_batch_count_Full(notes_needed, i) == Min(BatchCap, notes_needed)

\* batch_count of line 146
gc_batch_count(notes_needed, i) == Min(BatchCap, notes_needed - i)

\* the locals before ensure_thirty_minutes_cpo has run; calls counts the
\* generate_notes calls, requested sums their batch_count, returned is the
\* length of the last list returned
GcLocals0 ==
    [existing |-> 0, notes_needed |-> 0, idx |-> 0, batch_count |-> 0,
     calls |-> 0, requested |-> 0, returned |-> 0]

InitGenCpo ==
    /\ pc = "gc_start"
    /\ InitMain
    /\ arg \in RecordLists
    /\ ret = <<>>
    /\ gen_cpo = GcLocals0
    /\ val_cpo = <<>>

\* lines 122-126
gc_Measure ==
    /\ pc = "gc_start"
    /\ LET e == gc_LedgerSum(arg, 0)
       IN  /\ gen_cpo' = [gen_cpo EXCEPT !.existing = e]
           /\ pc' = IF e >= Threshold THEN "gc_ALREADY" ELSE "gc_orders"
    /\ UNCHANGED <<existing, soc, epe, window_start, window_end, existing_notes,
                   seen_titles, seen_snips, created, needed, batch, to_post,
                   idx, verdict, send_dt, accepted, genCalls, valCalls, valReqs,
                   iterValidated, iterAccepted, raised, orders_seen,
                   monthMinutes, genLen, uniqueLen, posts, arg, ret, val_cpo>>

\* lines 128-143: the certification order and notes_needed (the dates and the
\* agency data of lines 134-140 only enter the prompt)
gc_FindCert ==
    /\ pc = "gc_orders"
    /\ \E cert_order \in Cert485Outcomes :
         IF cert_order = <<>>
         THEN /\ pc' = "gc_NO_CERTIFICATION"
              /\ UNCHANGED gen_cpo
         ELSE /\ gen_cpo' = [gen_cpo EXCEPT
                    !.notes_needed = CeilDiv(Threshold - gen_cpo.existing,
                                             MinutesPerNote),
                    !.idx = 0]
              /\ pc' = "gc_loop"
    /\ UNCHANGED <<existing, soc, epe, window_start, window_end, existing_notes,
                   seen_titles, seen_snips, created, needed, batch, to_post,
                   idx, verdict, send_dt, accepted, genCalls, valCalls, valReqs,
                   iterValidated, iterAccepted, raised, orders_seen,
                   monthMinutes, genLen, uniqueLen, posts, arg, ret, val_cpo>>

\* lines 145-153: one pass of "for idx in range(0, notes_needed, 3)"
gc_Generate ==
    /\ pc = "gc_loop"
    /\ gen_cpo.idx < gen_cpo.notes_needed
    /\ \E returned \in GcReturnLens :
         LET b == gc_batch_count(gen_cpo.notes_needed, gen_cpo.idx)
         IN  gen_cpo' = [gen_cpo EXCEPT
                 !.batch_count = b,
                 !.calls = @ + 1,
                 !.requested = @ + b,
                 !.returned = returned,
                 !.idx = @ + BatchCap]
    /\ pc' = "gc_loop"
    /\ UNCHANGED <<existing, soc, epe, window_start, window_end, existing_notes,
                   seen_titles, seen_snips, created, needed, batch, to_post,
                   idx, verdict, send_dt, accepted, genCalls, valCalls, valReqs,
                   iterValidated, iterAccepted, raised, orders_seen,
                   monthMinutes, genLen, uniqueLen, posts, arg, ret, val_cpo>>

\* lines 155-156: the range is used up
gc_Complete ==
    /\ pc = "gc_loop"
    /\ gen_cpo.idx >= gen_cpo.notes_needed
    /\ pc' = "gc_COMPLETED"
    /\ UNCHANGED <<existing, soc, epe, window_start, window_end, existing_notes,
                   seen_titles, seen_snips, created, needed, batch, to_post,
                   idx, verdict, send_dt, accepted, genCalls, valCalls, valReqs,
                   iterValidated, iterAccepted, raised, orders_seen,
                   monthMinutes, genLen, uniqueLen, posts, arg, ret, gen_cpo,
                   val_cpo>>

NextGenCpo ==
    \/ gc_Measure
    \/ gc_FindCert
    \/ gc_Generate
    \/ gc_Complete

SpecGenCpo == InitGenCpo /\ [][NextGenCpo]_vars

-----------------------------------------------------------------------------
(* validate_cpo.py: main (lines 124-201) from the fetch of the CCNotes on.  *)
(* The window of lines 146 and 152 and the list the record store returns    *)
(* are drawn at the start; the locals are the fields of val_cpo.            *)

\* titles and texts of the stored notes: the record store does not strip them
CcNoteBodies ==
    { [noteTitle |-> <<"a", " ", "b", " ">>, noteText |-> LongText("y")],
      [noteTitle |-> <<"A", " ", "b">>,      noteText |-> LongText("v")],
      [noteTitle |-> <<"a", " ", " ", "b">>, noteText |-> <<"X", " ", "y">>],
      [noteTitle |-> <<"y">>,                noteText |-> <<"x", " ", " ", "Y">>] }

\* what get_ccnotes (lines 89-92) may return
CcRecords ==
    { [entityType |-> t, noteTitle |-> b.noteTitle, noteText |-> b.noteText] :
          t \in {"CCNote", "Order"}, b \in CcNoteBodies }

CcRecordLists == SeqsUpTo(CcRecords, MaxCCNotes)

\* the comprehension of line 160
RECURSIVE OnlyCCNotes(_)
OnlyCCNotes(recs) ==
    IF recs = <<>> THEN <<>>
    ELSE IF Head(recs).entityType = "CCNote"
         THEN <<Head(recs)>> \o OnlyCCNotes(Tail(recs))
         ELSE OnlyCCNotes(Tail(recs))

\* the loop of lines 190-201 from index j (counted from 0) on: st and ss are
\* the dicts seen_titles and seen_snips as sets of <<key, index>>, and a flag
\* holds the index printed with a duplicate, <<>> where nothing is printed
RECURSIVE DupCheck(_, _, _, _, _)
DupCheck(processed, j, st, ss, flags) ==
    IF j >= Len(processed) THEN flags
    ELSE LET rec     == processed[j + 1]
             t_lower == Lower(Strip(rec.title))
             snippet == SnipKey(rec.text)
             tHit    == {p \in st : p[1] = t_lower}
             sHit    == {p \in ss : p[1] = snippet}
             flag    == [title |-> IF tHit # {}
                                   THEN <<(CHOOSE p \in tHit : TRUE)[2]>>
                                   ELSE <<>>,
                         snip  |-> IF sHit # {}
                                   THEN <<(CHOOSE p \in sHit : TRUE)[2]>>
                                   ELSE <<>>]
         IN  DupCheck(processed, j + 1,
                      IF tHit # {} THEN st ELSE st \cup {<<t_lower, j>>},
                      IF sHit # {} THEN ss ELSE ss \cup {<<snippet, j>>},
                      Append(flags, flag))

InitValCpo ==
    /\ pc = "vc_start"
    /\ InitMain
    /\ arg = <<>>
    /\ ret = <<>>
    /\ gen_cpo = <<>>
    /\ \E s \in Instants, e \in Instants, cc \in CcRecordLists :
         val_cpo = [window_start |-> Max(s, MonthFirst),
                    window_end   |-> Min(e, MonthLast),
                    ccnotes      |-> cc,
                    notes        |-> <<>>,
                    processed    |-> <<>>,
                    verdict      |-> <<>>,
                    flags        |-> <<>>]

\* lines 160-166
vc_Fetch ==
    /\ pc = "vc_start"
    /\ LET notes == OnlyCCNotes(val_cpo.ccnotes)
       IN  /\ val_cpo' = [val_cpo EXCEPT !.notes = notes]
           /\ pc' = IF notes = <<>> THEN "vc_NO_NOTES" ELSE "vc_validating"
    /\ UNCHANGED <<existing, soc, epe, window_start, window_end, existing_notes,
                   seen_titles, seen_snips, created, needed, batch, to_post,
                   idx, verdict, send_dt, accepted, genCalls, valCalls, valReqs,
                   iterValidated, iterAccepted, raised, orders_seen,
                   monthMinutes, genLen, uniqueLen, posts, arg, ret, gen_cpo>>

\* lines 168-184, one pass: random_date (line 172) raises the ValueError of
\* randint on an empty window, before validate_note (line 174) is called
vc_Validate ==
    /\ pc = "vc_validating"
    /\ LET note == val_cpo.notes[Len(val_cpo.processed) + 1]
       IN  IF random_date(val_cpo.window_start, val_cpo.window_end) = {}
           THEN /\ pc' = "vc_EXCEPTION"
                /\ UNCHANGED val_cpo
           ELSE \E reply \in ValReplies :
                  LET v    == validate_note(reply)
                      done == Append(val_cpo.processed,
                                     [title |-> note.noteTitle,
                                      text  |-> note.noteText])
                  IN  /\ val_cpo' = [val_cpo EXCEPT !.processed = done,
                                                    !.verdict = v]
                      /\ pc' = IF Len(done) = Len(val_cpo.notes)
                               THEN "vc_flagging" ELSE "vc_validating"
    /\ UNCHANGED <<existing, soc, epe, window_start, window_end, existing_notes,
                   seen_titles, seen_snips, created, needed, batch, to_post,
                   idx, verdict, send_dt, accepted, genCalls, valCalls, valReqs,
                   iterValidated, iterAccepted, raised, orders_seen,
                   monthMinutes, genLen, uniqueLen, posts, arg, ret, gen_cpo>>

\* lines 187-201
vc_FlagDuplicates ==
    /\ pc = "vc_flagging"
    /\ val_cpo' = [val_cpo EXCEPT
                      !.flags = DupCheck(val_cpo.processed, 0, {}, {}, <<>>)]
    /\ pc' = "vc_DONE"
    /\ UNCHANGED <<existing, soc, epe, window_start, window_end, existing_notes,
                   seen_titles, seen_snips, created, needed, batch, to_post,
                   idx, verdict, send_dt, accepted, genCalls, valCalls, valReqs,
                   iterValidated, iterAccepted, raised, orders_seen,
                   monthMinutes, genLen, uniqueLen, posts, arg, ret, gen_cpo>>

NextValCpo ==
    \/ vc_Fetch
    \/ vc_Validate
    \/ vc_FlagDuplicates

SpecValCpo == InitValCpo /\ [][NextValCpo]_vars

-----------------------------------------------------------------------------
(* Properties *)

\* the keys of the records the patient had before the run
PreTitles == {TitleKey(existing_notes[i].noteTitle) : i \in 1..Len(existing_notes)}
PreSnips  == {SnipKey(existing_notes[i].noteText) : i \in 1..Len(existing_notes)}

\* the keys of the entries accepted so far
AcceptedTitles == {TitleKey(accepted[i].title) : i \in 1..Len(accepted)}
AcceptedSnips  == {SnipKey(accepted[i].text) : i \in 1..Len(accepted)}

\* a title lowercased and whitespace-collapsed
NormTitle(title) == Lower(Join(Split(title)))

\* the intervals [a1, a2] and [b1, b2] have an instant in common
Overlap(a1, a2, b1, b2) ==
    \E t \in Instants : a1 <= t /\ t <= a2 /\ b1 <= t /\ t <= b2

\* C1: whenever control is back at the loop test after an iteration, that
\* iteration has strictly increased created (an iteration that accepts
\* nothing has left the loop in EXHAUSTED instead).
C1_IterationProgress ==
    (pc = "loop" /\ genCalls > 0) => iterAccepted > 0

\* C2: once the loop is entered, the run eventually stands in EXHAUSTED or,
\* the threshold met, in DONE.
C2_LoopTerminates ==
    (pc = "loop") ~> (pc \in {"DONE", "EXHAUSTED"})

\* C3: between iterations and at the end of the run the identity sets hold
\* exactly the keys of the pre-existing records and of the accepted entries.
C3_OnlyAcceptedRecorded ==
    pc \in {"loop", "DONE", "EXHAUSTED"} =>
        /\ seen_titles = PreTitles \cup AcceptedTitles
        /\ seen_snips = PreSnips \cup AcceptedSnips

\* C4: the normalized titles (lowercased, whitespace-collapsed) and the
\* normalized snippets of the accepted entries are pairwise different, and
\* different from those of every pre-existing record.
C4_AcceptedDistinct ==
    /\ \A i, j \in 1..Len(accepted) :
         i # j =>
           /\ NormTitle(accepted[i].title) # NormTitle(accepted[j].title)
           /\ SnipKey(accepted[i].text) # SnipKey(accepted[j].text)
    /\ \A i \in 1..Len(accepted) : \A k \in 1..Len(existing_notes) :
           /\ NormTitle(accepted[i].title) # NormTitle(existing_notes[k].noteTitle)
           /\ SnipKey(accepted[i].text) # SnipKey(existing_notes[k].noteText)

\* C5: a validation step increments created, by exactly one note (3 minutes),
\* if and only if the verdict it obtained starts with "VALID".
C5_FailClosed ==
    [][pc = "validating" =>
         /\ (created' # created) <=> StartsWith(verdict', VALID)
         /\ created' \in {created, created + 1}]_vars

\* C6: in every iteration the validator calls, and the acceptances, number at
\* most needed = ceil((30 - existing - 3 * created) / 3), created taken at
\* the start of the iteration.
C6_AtMostNeeded ==
    genCalls > 0 =>
        LET atStart == created - iterAccepted
            n == CeilDiv(Threshold - existing - MinutesPerNote * atStart,
                         MinutesPerNote)
        IN  /\ iterValidated <= n
            /\ iterAccepted <= n

\* one generate_notes call gave two unique candidates where one was needed,
\* and only one went to the validator
C6_Witness ==
    /\ genCalls = 1
    /\ needed = 1
    /\ Cardinality(seen_titles) = Len(existing_notes) + 2
    /\ iterValidated = 1
    /\ pc = "loop"

\* C7: every timestamp drawn for an accepted entry lies in the billing window
\* max(certificationStart, monthStart) .. min(certificationEnd, monthEnd).
C7_StampInBillingWindow ==
    \A t \in send_dt :
        /\ Max(soc, MonthFirst) <= t
        /\ t <= Min(epe, MonthLast)

\* C8: the window computed from the order and the month has start <= end
\* exactly when the certification interval and the month overlap.
C8_WindowIffOverlap ==
    pc = "notes" =>
        ((window_start <= window_end) <=> Overlap(soc, epe, MonthFirst, MonthLast))

\* C9: with an empty window (start > end) no run ends in an exception raised
\* by the drawing of the timestamp.
C9_EmptyWindowNoException ==
    window_start > window_end => ~(pc = "EXCEPTION" /\ raised = "randint")

\* C10: once measured, existing >= 30 means the run stands in DONE with no
\* generate_notes call and no validate_note call made.
C10_DoneAtThreshold ==
    (pc # "start" /\ existing >= Threshold) =>
        (pc = "DONE" /\ genCalls = 0 /\ valCalls = 0)

\* the ledger measured exactly 30 minutes and the run is in DONE
C10_Witness == pc = "DONE" /\ existing = Threshold

\* C11: once the orders are fetched (which happens only below the threshold)
\* and none of them names 485 or recert in its type or name, the run stands
\* in NO_CERTIFICATION with no generate_notes and no validate_note call made.
C11_NoCertificationStops ==
    (orders_seen = "nomatch" /\ existing < Threshold) =>
        (pc = "NO_CERTIFICATION" /\ genCalls = 0 /\ valCalls = 0)

\* 27 minutes were measured, no order named a certification, the run stopped
C11_Witness ==
    /\ pc = "NO_CERTIFICATION"
    /\ orders_seen = "nomatch"
    /\ existing = 27

\* the first order of the list that names 485 or recert in its type or name,
\* <<>> when there is none
FirstNaming(orders) ==
    LET S == {i \in 1..Len(orders) : orders[i] \in CertNamingOrders}
    IN  IF S = {} THEN <<>>
        ELSE <<orders[CHOOSE i \in S : \A j \in S : i <= j]>>

\* C12: find_cert_order returns the first order, in input order, whose type or
\* name contains "485" or "recert" in any letter case, and None exactly when
\* there is no such order.
C12_FirstNamingOrder ==
    pc = "return_find_cert_order" => ret = FirstNaming(arg)

\* C13: one generate_notes call sends at most two requests, all with the same
\* prompt; it sends the second exactly when the first timed out; after an
\* error on the first, or a timeout then a timeout or an error, it returns the
\* empty list.
C13_RetryOnce ==
    pc = "return_generate_notes" =>
        LET r1 == arg.replies[1]
            r2 == arg.replies[2]
            n  == Len(ret.requests)
        IN  /\ n \in {1, 2}
            /\ \A i, j \in 1..n : ret.requests[i] = ret.requests[j]
            /\ (n = 2) <=> (r1.kind = "timeout")
            /\ r1.kind = "error" => ret.notes = <<>>
            /\ (r1.kind = "timeout" /\ r2.kind \in {"timeout", "error"}) =>
                   ret.notes = <<>>
            /\ r1.kind = "ok" => ret.notes = r1.notes
            /\ (r1.kind = "timeout" /\ r2.kind = "ok") => ret.notes = r2.notes

\* the first request timed out, the second was answered with notes, which the
\* call returned after two requests
C13_Witness ==
    /\ pc = "return_generate_notes"
    /\ arg.replies[1].kind = "timeout"
    /\ arg.replies[2].kind = "ok"
    /\ Len(ret.requests) = 2
    /\ ret.notes # <<>>

\* f[lo] + ... + f[hi]
RECURSIVE SumFrom(_, _, _)
SumFrom(f, lo, hi) == IF lo > hi THEN 0 ELSE f[lo] + SumFrom(f, lo + 1, hi)

\* C14: once the certification is resolved, existing is the sum of the cpOmin
\* of the records stamped inside the billing window, the month clipped to
\* startOfCare .. episodeEndDate.
C14_ExistingOverBillingWindow ==
    (orders_seen # "" /\ pc # "NO_CERTIFICATION") =>
        existing = SumFrom(monthMinutes, Max(soc, MonthFirst), Min(epe, MonthLast))

\* the cpOmin of the records of recs stamped in lo .. hi, summed
RECURSIVE WindowMinutes(_, _, _)
WindowMinutes(recs, lo, hi) ==
    IF lo > hi THEN 0 ELSE MinutesAt(recs, lo) + WindowMinutes(recs, lo + 1, hi)

\* C15: the ledger returns the sum of the cpOmin of the records stamped from
\* the first instant of the month to its last instant, both included, and of
\* no record stamped before or after.
C15_LedgerInclusive ==
    (pc = "return_get_existing_cpo_minutes" /\ ~ret.error) =>
        ret.total = WindowMinutes(arg, MonthFirst, MonthLast)

\* a record stamped at the last instant of the month is counted, one stamped
\* at the next instant is not
C15_Witness ==
    /\ pc = "return_get_existing_cpo_minutes"
    /\ Len(arg) = 2
    /\ arg[1].kind = "iso" /\ arg[1].ts = MonthLast /\ arg[1].cpOmin = 24
    /\ arg[2].kind = "iso" /\ arg[2].ts = MonthLast + 1 /\ arg[2].cpOmin = 27
    /\ ~ret.error
    /\ ret.total = 24

\* C16: the ledger never fails on a record: main() never ends in the
\* exception of the timestamp parsing.
C16_LedgerNeverFails ==
    ~(pc = "EXCEPTION" /\ raised = "fromisoformat")

\* the title and the text of a note, lowercased and whitespace-collapsed
NormOf ==
    [n \in GenNotes \cup VariantNotes |->
        <<Lower(Join(Split(n.title))), Lower(Join(Split(n.text)))>>]

NormOfPre ==
    [n \in PreNotes |->
        <<Lower(Join(Split(n.noteTitle))), Lower(Join(Split(n.noteText)))>>]

\* C17: after the keys of the existing notes and of the unique notes of a
\* first batch are recorded, a candidate of a second batch that equals a
\* recorded entry up to letter case and whitespace, or whose title key or
\* snippet key alone is recorded, is not among the unique notes of the second
\* batch; nor is any note twice among them.
C17_DuplicateDetected ==
    pc = "return_dedupe" =>
        LET recorded ==
                {NormOfPre[arg.existing_notes[i]] : i \in 1..Len(arg.existing_notes)}
                    \cup {NormOf[ret.first.unique[i]] : i \in 1..Len(ret.first.unique)}
            u == ret.second.unique
        IN  /\ \A i \in 1..Len(arg.second) :
                 LET c == arg.second[i]
                 IN  (\/ NormOf[c] \in recorded
                      \/ NoteKeys[c].kt \in ret.first.seen_titles
                      \/ NoteKeys[c].ks \in ret.first.seen_snips) =>
                        \A j \in 1..Len(u) : u[j] # c
            /\ \A j, k \in 1..Len(u) : j # k => u[j] # u[k]

\* the first batch recorded a note, the second held one that differs from it
\* in the whitespace of the title and the case of the text: it was dropped
C17_Witness ==
    /\ pc = "return_dedupe"
    /\ Len(ret.first.unique) = 1
    /\ Len(arg.second) = 1
    /\ arg.second[1] # ret.first.unique[1]
    /\ NormOf[arg.second[1]] = NormOf[ret.first.unique[1]]
    /\ NoteKeys[arg.second[1]].kt # NoteKeys[ret.first.unique[1]].kt
    /\ ret.second.unique = <<>>

\* C18: no run makes a requests.post call.
C18_NoPost == posts = 0

\* two notes were accepted and printed, nothing was posted
C18_Witness == Len(accepted) = 2 /\ posts = 0

\* C19: in an iteration that goes on to print and validate its unique notes,
\* no candidate was skipped by the continue of line 231, which prints nothing:
\* every candidate of the batch is among the notes printed.
C19_EveryFateReported ==
    uniqueLen > 0 => genLen = uniqueLen

C21_BatchCount ==
    genCalls > 0 =>
        LET atStart == created - iterAccepted
        IN  /\ needed = CeilDiv(Threshold - existing - MinutesPerNote * atStart,
                                MinutesPerNote)
            /\ batch = Min(BatchCap, needed)
            /\ batch \in 1..BatchCap
            /\ existing = 27 =>
                   /\ batch = 1
                   /\ created <= 1
                   /\ pc = "DONE" => existing + MinutesPerNote * created = 30

\* 27 minutes existed, one note was asked for and accepted, the run is DONE
C21_Witness ==
    /\ pc = "DONE"
    /\ existing = 27
    /\ batch = 1
    /\ genCalls = 1
    /\ created = 1

\* C22: generate_notes(icd, phys, cnt) returns at most cnt pairs.
C22_AtMostCount ==
    pc = "return_generate_notes" => Len(ret.notes) <= arg.cnt

\* C23: every validate_note call makes exactly one backend request; the for
\* loop moves on to the next note after each call, whatever the outcome; and
\* the notes put in to_post passed the test of line 230 against the identity
\* sets as they were before the batch and against each other.
C23_OneRequestPerCandidate ==
    [][/\ valReqs' - valReqs = valCalls' - valCalls
       /\ valCalls' - valCalls \in {0, 1}
       /\ valCalls' = valCalls + 1 =>
              /\ pc = "validating"
              /\ idx \in 1..Len(to_post)
              /\ to_post' = to_post
              /\ pc' = "EXCEPTION" \/ idx' = idx + 1
       /\ (genCalls' = genCalls + 1 /\ pc' = "validating") =>
              /\ \A i \in 1..Len(to_post') :
                     /\ NoteKeys[to_post'[i]].kt \notin seen_titles
                     /\ NoteKeys[to_post'[i]].ks \notin seen_snips
              /\ \A i, j \in 1..Len(to_post') :
                     i # j =>
                        /\ NoteKeys[to_post'[i]].kt # NoteKeys[to_post'[j]].kt
                        /\ NoteKeys[to_post'[i]].ks # NoteKeys[to_post'[j]].ks]_vars

\* the request for the first of two notes failed; one call and one request
\* were made and the loop stands at the second note
C23_Witness ==
    /\ pc = "validating"
    /\ verdict = ErrorMarker
    /\ idx = 2
    /\ valCalls = 1
    /\ valReqs = 1

\* C24: when fewer than 30 minutes existed, existing + 3 * created never
\* exceeds 32, and in DONE it is in 30..32.
C24_NoOvershoot ==
    existing < Threshold =>
        /\ existing + MinutesPerNote * created <= Threshold + MinutesPerNote - 1
        /\ pc = "DONE" => existing + MinutesPerNote * created >= Threshold

\* 29 minutes existed and one note was accepted: the run is DONE with 32
C24_Witness ==
    /\ pc = "DONE"
    /\ existing = 29
    /\ created = 1

\* C25: in generate_cpo.py, when the range of line 145 is used up,
\* generate_notes has been called exactly ceil(notes_needed / 3) times with
\* notes_needed = ceil((30 - existing) / 3), the batch_count of the calls sum
\* to notes_needed, and every batch_count is in 1..3, whatever the calls
\* returned.
C25_CallsByNeeded ==
    LET g == gen_cpo
    IN  /\ (pc = "gc_loop" /\ g.calls > 0) => g.batch_count \in 1..3
        /\ pc = "gc_COMPLETED" =>
               /\ g.existing < 30
               /\ g.notes_needed = CeilDiv(30 - g.existing, 3)
               /\ g.calls = CeilDiv(g.notes_needed, 3)
               /\ g.requested = g.notes_needed
               /\ g.batch_count \in 1..3

\* no minutes existed: four calls asked for 3 + 3 + 3 + 1 notes, and the last
\* returned nothing
C25_Witness ==
    /\ pc = "gc_COMPLETED"
    /\ gen_cpo.existing = 0
    /\ gen_cpo.calls = 4
    /\ gen_cpo.requested = 10
    /\ gen_cpo.batch_count = 1
    /\ gen_cpo.returned = 0

\* the CCNotes of the list the record store returned, as (title, text)
CcExpected ==
    LET notes == OnlyCCNotes(val_cpo.ccnotes)
    IN  [j \in 1..Len(notes) |->
            [title |-> notes[j].noteTitle, text |-> notes[j].noteText]]

\* the flag the duplicate check owes note j (counted from 1) of the validated
\* notes under the key Key: the index, counted from 0, of the first earlier
\* note with the same key
OwedFlag(Key(_), j) ==
    LET p       == val_cpo.processed
        earlier == {i \in 1..(j - 1) : Key(p[i]) = Key(p[j])}
    IN  IF earlier = {} THEN <<>>
        ELSE <<(CHOOSE i \in earlier : \A k \in earlier : i <= k) - 1>>

StrippedLowerTitle(rec) == Lower(Strip(rec.title))

LowerSnippet(rec) == SnipKey(rec.text)

\* the duplicate check of validate_cpo.py flags note j exactly for an earlier
\* note with the same key and reports the first such note
FlagsAsOwed ==
    /\ Len(val_cpo.flags) = Len(val_cpo.processed)
    /\ \A j \in 1..Len(val_cpo.flags) :
          /\ val_cpo.flags[j].title = OwedFlag(StrippedLowerTitle, j)
          /\ val_cpo.flags[j].snip = OwedFlag(LowerSnippet, j)

\* C26: a run of validate_cpo.py that has fetched the notes ends with each
\* CCNote validated exactly once, in order, and with note j flagged as a
\* duplicate title (snippet) exactly when an earlier note has the same
\* stripped lowercased title (lowercased first-10-token snippet), the index
\* reported being that of the first such note.
C26_ValidatedOnceAndFlagged ==
    pc \in {"vc_NO_NOTES", "vc_DONE", "vc_EXCEPTION"} =>
        /\ val_cpo.processed = CcExpected
        /\ FlagsAsOwed

=============================================================================
